---- MODULE Spec2Model ----
(***************************************************************************)
(* A model of the obsidian-typechecker plugin (src/src/main.ts): the type  *)
(* validator, the type inferrer, the date-shape helpers and the            *)
(* per-file validation cache.                                              *)
(*                                                                         *)
(* JavaScript strings that the code inspects character by character (the   *)
(* frontmatter values) are sequences of one-character strings; names the   *)
(* code only compares and concatenates (property names, type names, error  *)
(* messages) are TLA+ strings.                                             *)
(***************************************************************************)
EXTENDS Integers, Sequences, FiniteSets, TLC

VARIABLES
  engineDates,      \* host: the engine-dependent strings Date.parse accepts
  deleted,          \* host: the paths whose file was deleted or renamed away
  typesFile,        \* host: the state of <configDir>/types.json
  mtime,            \* host: file.stat.mtime of each markdown file
  pending,          \* host: the file was modified, its metadata not yet re-parsed
  meta,             \* host: metadataCache.getFileCache(file)?.frontmatter
  loaded,           \* onload has run loadPropertyTypes
  propertyTypes,    \* TypeCheckerPlugin.propertyTypes
  validationCache,  \* TypeCheckerPlugin.validationCache
  lastCall,         \* history: the last validateFile call and what it did
  completed,        \* history: per file, the marker and result of its last call
                    \* and the frontmatter the result was computed from
  probe,            \* a value and a type name handed to the pure functions
  settings,         \* TypeCheckerPlugin.settings.enableAutoCheck
  autoHandler,      \* onload registered the auto-check handler
  activeFile,       \* host: workspace.getActiveFile()
  leaf,             \* host: the Type Checker leaf: "none", "creating", "open"
  currentFile,      \* TypeCheckerView.currentFile
  results,          \* TypeCheckerView.results
  updateTimeout,    \* TypeCheckerPlugin.updateTimeout is a pending timer
  allResults,       \* history: the list the last checkAllFiles built
  clock,            \* host: the time, in steps of StepMs milliseconds
  timers,           \* host: the pending timers, each the time it was set at
  burst,            \* history: the triggers of updateViewCurrentFile since
                    \* the last burst ended and the timer callbacks run
  created,          \* history: the leaves of the view's type created so far
  suspended         \* the updateCurrentFile calls waiting at their await

viewVars ==
  << settings, autoHandler, activeFile, leaf, currentFile, results,
     updateTimeout, allResults, clock, timers, burst, created,
                  suspended >>

vars ==
  << engineDates, deleted, typesFile, mtime, pending, meta, loaded,
     propertyTypes, validationCache, lastCall, completed, probe, viewVars >>

(***************************************************************************)
(* Bounds of the model.                                                    *)
(***************************************************************************)
\* longest array drawn as a frontmatter value
MaxSeqLen == 2
\* largest modification time a file reaches
MaxMtime == 2

(***************************************************************************)
(* Raw frontmatter values: a tagged union over the JavaScript values YAML  *)
(* parsing yields.  kind is "null", "undefined", "string", "number",       *)
(* "boolean", "array" or "object"; str holds the characters of a string,   *)
(* the token of a number ("NaN", "Infinity", "-Infinity" or a finite       *)
(* literal), the token of a boolean; elems holds the elements of an array. *)
(***************************************************************************)
JsNull == [kind |-> "null", str |-> <<>>, elems |-> <<>>]
JsUndefined == [kind |-> "undefined", str |-> <<>>, elems |-> <<>>]
JsString(chars) == [kind |-> "string", str |-> chars, elems |-> <<>>]
JsNumber(tok) == [kind |-> "number", str |-> <<tok>>, elems |-> <<>>]
JsBoolean(tok) == [kind |-> "boolean", str |-> <<tok>>, elems |-> <<>>]
JsArray(es) == [kind |-> "array", str |-> <<>>, elems |-> es]
JsObject == [kind |-> "object", str |-> <<>>, elems |-> <<>>]

\* the strings drawn as values
S_high == <<"h","i","g","h">>
S_empty == <<>>
S_hashwork == <<"#","w","o","r","k">>
S_urgent == <<"u","r","g","e","n","t">>
S_solo == <<"s","o","l","o">>
S_Text == <<"T","e","x","t">>
S_num42 == <<"4","2">>
S_date == <<"2","0","2","4","-","0","3","-","0","1">>
S_baddate == <<"9","9","9","9","-","9","9","-","9","9">>
S_datetimeZ == <<"2","0","2","4","-","0","3","-","0","1","T","1","0",":","0","0",":","0","0","Z">>
S_datetimeShort == <<"2","0","2","4","-","0","3","-","0","1","T","1","0",":","0","0">>
S_datetimeMs == <<"2","0","2","4","-","0","3","-","0","1","T","1","0",":","0","0",":","0","0",".","1","2","3">>
S_dateSpaceTime == <<"2","0","2","4","-","0","3","-","0","1"," ","1","0",":","3","0">>
S_longdate == <<"M","a","r","c","h"," ","1",","," ","2","0","2","4">>
S_yearMonth == <<"2","0","2","4","-","0","3">>
S_timeThenDate == <<"1","0",":","3","0"," ","2","0","2","4","-","0","3","-","0","1">>

Strings ==
  { S_high, S_empty, S_hashwork, S_urgent, S_solo, S_Text, S_num42, S_date, S_baddate,
    S_datetimeZ, S_datetimeShort, S_datetimeMs, S_dateSpaceTime, S_longdate,
    S_yearMonth, S_timeThenDate }

NumberTokens == {"0", "5", "-2.5", "NaN", "Infinity", "-Infinity"}

Scalars ==
  {JsNull, JsUndefined, JsObject}
    \cup {JsString(s) : s \in Strings}
    \cup {JsNumber(n) : n \in NumberTokens}
    \cup {JsBoolean(b) : b \in {"true", "false"}}

\* the scalars drawn as array elements
ElemScalars ==
  {JsNull, JsString(S_hashwork), JsString(S_urgent), JsNumber("5")}

SeqsUpTo(S, n) == UNION {[1..k -> S] : k \in 0..n}

Values == Scalars \cup {JsArray(es) : es \in SeqsUpTo(ElemScalars, MaxSeqLen)}

(***************************************************************************)
(* JavaScript primitives the code uses.                                    *)
(***************************************************************************)
\* typeof value
typeof(value) ==
  CASE value.kind \in {"null", "array", "object"} -> "object"
    [] OTHER -> value.kind

\* Array.isArray(value)
isArray(value) == value.kind = "array"

\* isNaN(value) of a number
isNaN(value) == value.str = <<"NaN">>

Digits == {"0","1","2","3","4","5","6","7","8","9"}

\* \d at position i of s
IsDigitAt(s, i) == i \in 1..Len(s) /\ s[i] \in Digits

\* the literal character c at position i of s
IsCharAt(s, i, c) == i \in 1..Len(s) /\ s[i] = c

\* value.includes(c)
includes(s, c) == \E i \in 1..Len(s) : s[i] = c

\* v.startsWith("#")
startsWithHash(s) == IsCharAt(s, 1, "#")

\* \d{4}-\d{2}-\d{2} at positions 1..10
MatchesYmdPrefix(s) ==
  /\ \A i \in {1,2,3,4,6,7,9,10} : IsDigitAt(s, i)
  /\ IsCharAt(s, 5, "-")
  /\ IsCharAt(s, 8, "-")

\* /^\d{4}-\d{2}-\d{2}$/.test(s)
dateRegex(s) == Len(s) = 10 /\ MatchesYmdPrefix(s)

\* /^\d{4}-\d{2}-\d{2}T\d{2}:\d{2}(:\d{2})?(\.\d{3})?Z?$/.test(s)
datetimeRegex(s) ==
  /\ MatchesYmdPrefix(s)
  /\ IsCharAt(s, 11, "T")
  /\ IsDigitAt(s, 12) /\ IsDigitAt(s, 13)
  /\ IsCharAt(s, 14, ":")
  /\ IsDigitAt(s, 15) /\ IsDigitAt(s, 16)
  /\ \E secs \in {0, 3}, ms \in {0, 4}, z \in {0, 1} :
       /\ Len(s) = 16 + secs + ms + z
       /\ secs = 3 =>
            IsCharAt(s, 17, ":") /\ IsDigitAt(s, 18) /\ IsDigitAt(s, 19)
       /\ ms = 4 =>
            /\ IsCharAt(s, 17 + secs, ".")
            /\ \A k \in 1..3 : IsDigitAt(s, 17 + secs + k)
       /\ z = 1 => IsCharAt(s, Len(s), "Z")

\* /\d{1,2}:\d{2}/.test(s): the pattern anywhere in s
timeRegex(s) ==
  \E i \in 1..Len(s) :
    \/ IsDigitAt(s, i) /\ IsCharAt(s, i + 1, ":")
         /\ IsDigitAt(s, i + 2) /\ IsDigitAt(s, i + 3)
    \/ IsDigitAt(s, i) /\ IsDigitAt(s, i + 1) /\ IsCharAt(s, i + 2, ":")
         /\ IsDigitAt(s, i + 3) /\ IsDigitAt(s, i + 4)

\* the two-digit number at positions i, i+1 of s
DigitVal(c) ==
  CASE c = "0" -> 0 [] c = "1" -> 1 [] c = "2" -> 2 [] c = "3" -> 3
    [] c = "4" -> 4 [] c = "5" -> 5 [] c = "6" -> 6 [] c = "7" -> 7
    [] c = "8" -> 8 [] c = "9" -> 9
TwoDigits(s, i) == 10 * DigitVal(s[i]) + DigitVal(s[i + 1])

\* strings outside the ISO format that every engine's Date.parse accepts
LegacyDateStrings == {S_longdate}

\* strings outside the ISO format whose parse differs between the engines the
\* plugin runs on (the legacy parser of V8 on desktop accepts them, older
\* JavaScriptCore does not)
EngineDependentStrings == {S_dateSpaceTime, S_num42, S_timeThenDate}

\* what V8 accepts of them
V8Dates == {S_dateSpaceTime, S_num42, S_timeThenDate}

\* !isNaN(Date.parse(s)): the ISO date-time format with its field ranges
\* (YYYY, YYYY-MM, YYYY-MM-DD, each optionally followed by a time), or one
\* of the engine's legacy formats
DateParseOk(s) ==
  \/ /\ dateRegex(s) \/ datetimeRegex(s)
     /\ TwoDigits(s, 6) \in 1..12
     /\ TwoDigits(s, 9) \in 1..31
     /\ Len(s) > 10 => TwoDigits(s, 12) \in 0..23 /\ TwoDigits(s, 15) \in 0..59
     /\ Len(s) > 17 /\ s[17] = ":" => TwoDigits(s, 18) \in 0..59
  \/ /\ Len(s) = 7
     /\ \A i \in {1,2,3,4,6,7} : IsDigitAt(s, i)
     /\ IsCharAt(s, 5, "-")
     /\ TwoDigits(s, 6) \in 1..12
  \/ s \in LegacyDateStrings
  \/ s \in engineDates

(***************************************************************************)
(* The date-shape helpers.                                                 *)
(***************************************************************************)
isValidDate(value) ==
  IF typeof(value) # "string" THEN FALSE
  ELSE dateRegex(value.str) \/ datetimeRegex(value.str) \/ DateParseOk(value.str)

\* a test that wants the time after the space
hasTimeComponent_afterSpace(value) ==
  IF typeof(value) # "string" THEN FALSE
  ELSE \/ includes(value.str, "T")
       \/ \E i \in 1..Len(value.str) :
            /\ value.str[i] = " "
            /\ timeRegex(SubSeq(value.str, i + 1, Len(value.str)))

hasTimeComponent(value) ==
  IF typeof(value) # "string" THEN FALSE
  ELSE \/ includes(value.str, "T")
       \/ includes(value.str, " ") /\ timeRegex(value.str)

(***************************************************************************)
(* Expected types: the values of the schema map.  types.json is parsed     *)
(* JSON, so a value need not be a string; name is the text the value       *)
(* converts to in a template literal.                                      *)
(***************************************************************************)
TypeName(n) == [kind |-> "string", name |-> n]

KnownTypeNames ==
  { "text", "list", "multitext", "number", "checkbox", "boolean", "date",
    "datetime", "tags", "aliases" }

UnknownTypeNames == {"foo", "Text", "string", ""}

ExpectedTypes ==
  {TypeName(n) : n \in KnownTypeNames \cup UnknownTypeNames}
    \cup { [kind |-> "number", name |-> "5"], [kind |-> "number", name |-> "0"],
           [kind |-> "object", name |-> "[object Object]"] }

\* !expectedType is false
Truthy(expectedType) ==
  /\ ~(expectedType.kind = "string" /\ expectedType.name = "")
  /\ ~(expectedType.kind = "number" /\ expectedType.name \in {"0", "NaN"})
  /\ expectedType.kind \notin {"null", "undefined"}

\* an every that looks at the first element only
everyString_firstOnly(value) ==
  Len(value.elems) > 0 => typeof(value.elems[1]) = "string"

\* value.every((v) => typeof v === "string")
everyString(value) ==
  \A i \in 1..Len(value.elems) : typeof(value.elems[i]) = "string"

\* value.every((v) => typeof v === "string" && v.startsWith("#"))
everyHashString(value) ==
  \A i \in 1..Len(value.elems) :
    typeof(value.elems[i]) = "string" /\ startsWithHash(value.elems[i].str)

(***************************************************************************)
(* The type validator.                                                     *)
(***************************************************************************)
\* a validator that rejects the type names it does not know
validatePropertyType_strictDefault(value, expectedType) ==
  IF expectedType.kind # "string" THEN FALSE
  ELSE
    CASE expectedType.name = "text" -> typeof(value) = "string"
      [] expectedType.name \in {"list", "multitext"} ->
           typeof(value) = "string" \/ (isArray(value) /\ everyString(value))
      [] expectedType.name = "number" ->
           typeof(value) = "number" /\ ~isNaN(value)
      [] expectedType.name \in {"checkbox", "boolean"} ->
           typeof(value) = "boolean"
      [] expectedType.name = "date" ->
           isValidDate(value) /\ ~hasTimeComponent(value)
      [] expectedType.name = "datetime" ->
           isValidDate(value) /\ hasTimeComponent(value)
      [] expectedType.name = "tags" ->
           isArray(value) /\ everyHashString(value)
      [] expectedType.name = "aliases" ->
           isArray(value) /\ everyString(value)
      [] OTHER -> FALSE

\* a validator whose date rule does not look at the time component
validatePropertyType_dateIgnoresTime(value, expectedType) ==
  IF expectedType.kind # "string" THEN TRUE
  ELSE
    CASE expectedType.name = "text" -> typeof(value) = "string"
      [] expectedType.name \in {"list", "multitext"} ->
           typeof(value) = "string" \/ (isArray(value) /\ everyString(value))
      [] expectedType.name = "number" ->
           typeof(value) = "number" /\ ~isNaN(value)
      [] expectedType.name \in {"checkbox", "boolean"} ->
           typeof(value) = "boolean"
      [] expectedType.name = "date" ->
           isValidDate(value)
      [] expectedType.name = "datetime" ->
           isValidDate(value) /\ hasTimeComponent(value)
      [] expectedType.name = "tags" ->
           isArray(value) /\ everyHashString(value)
      [] expectedType.name = "aliases" ->
           isArray(value) /\ everyString(value)
      [] OTHER -> TRUE

validatePropertyType(value, expectedType) ==
  IF expectedType.kind # "string" THEN TRUE
  ELSE
    CASE expectedType.name = "text" -> typeof(value) = "string"
      [] expectedType.name \in {"list", "multitext"} ->
           typeof(value) = "string" \/ (isArray(value) /\ everyString(value))
      [] expectedType.name = "number" ->
           typeof(value) = "number" /\ ~isNaN(value)
      [] expectedType.name \in {"checkbox", "boolean"} ->
           typeof(value) = "boolean"
      [] expectedType.name = "date" ->
           isValidDate(value) /\ ~hasTimeComponent(value)
      [] expectedType.name = "datetime" ->
           isValidDate(value) /\ hasTimeComponent(value)
      [] expectedType.name = "tags" ->
           isArray(value) /\ everyHashString(value)
      [] expectedType.name = "aliases" ->
           isArray(value) /\ everyString(value)
      [] OTHER -> TRUE

(***************************************************************************)
(* The type inferrer.                                                      *)
(***************************************************************************)
\* an inferrer that tests for a list before it tests for tags
getValueType_listBeforeTags(value) ==
  IF value.kind \in {"null", "undefined"} THEN "null"
  ELSE IF typeof(value) = "string" THEN
    IF isValidDate(value)
      THEN (IF hasTimeComponent(value) THEN "datetime" ELSE "date")
      ELSE "text"
  ELSE IF typeof(value) = "number" /\ ~isNaN(value) THEN "number"
  ELSE IF typeof(value) = "boolean" THEN "checkbox"
  ELSE IF isArray(value) THEN
    IF everyString(value) THEN "list"
    ELSE IF everyHashString(value) THEN "tags"
    ELSE "array"
  ELSE typeof(value)

getValueType(value) ==
  IF value.kind \in {"null", "undefined"} THEN "null"
  ELSE IF typeof(value) = "string" THEN
    IF isValidDate(value)
      THEN (IF hasTimeComponent(value) THEN "datetime" ELSE "date")
      ELSE "text"
  ELSE IF typeof(value) = "number" /\ ~isNaN(value) THEN "number"
  ELSE IF typeof(value) = "boolean" THEN "checkbox"
  ELSE IF isArray(value) THEN
    IF everyHashString(value) THEN "tags"
    ELSE IF everyString(value) THEN "list"
    ELSE "array"
  ELSE typeof(value)

(***************************************************************************)
(* validateFile: the loop over the frontmatter entries.                    *)
(***************************************************************************)
\* an ignore-list without tags
IGNORED_PROPERTIES_noTags == {"position", "aliases"}

IGNORED_PROPERTIES == {"position", "aliases", "tags"}

\* a lookup that takes an undeclared property for text
LookupType_defaultText(schema, property) ==
  IF property \in DOMAIN schema THEN schema[property]
  ELSE [kind |-> "string", name |-> "text"]

\* this.propertyTypes[property]; undefined for a property with no entry
LookupType(schema, property) ==
  IF property \in DOMAIN schema THEN schema[property]
  ELSE [kind |-> "undefined", name |-> "undefined"]

\* an entry with expected and actual exchanged
ErrorEntry_swapped(property, expectedType, actualType) ==
  [ property |-> property,
    expected |-> actualType,
    actual   |-> expectedType.name,
    message  |-> "expected " \o actualType \o ", got " \o expectedType.name ]

\* the entry pushed for a property that fails validation
ErrorEntry(property, expectedType, actualType) ==
  [ property |-> property,
    expected |-> expectedType.name,
    actual   |-> actualType,
    message  |-> "expected " \o expectedType.name \o ", got " \o actualType ]

\* a loop that puts each new entry in front of the list
RECURSIVE ValidateEntries_prepend(_, _, _, _)
ValidateEntries_prepend(entries, schema, i, errors) ==
  IF i > Len(entries) THEN errors
  ELSE
    LET property == entries[i].property
        value == entries[i].value
        expectedType == LookupType(schema, property)
    IN IF property \in IGNORED_PROPERTIES
         THEN ValidateEntries_prepend(entries, schema, i + 1, errors)
       ELSE IF ~Truthy(expectedType)
         THEN ValidateEntries_prepend(entries, schema, i + 1, errors)
       ELSE
         LET actualType == getValueType(value)
             isValid == validatePropertyType(value, expectedType)
         IN ValidateEntries_prepend(entries, schema, i + 1,
              IF ~isValid
                THEN <<ErrorEntry(property, expectedType, actualType)>> \o errors
                ELSE errors)

\* the body of the for loop for entry i, extending errors
RECURSIVE ValidateEntries(_, _, _, _)
ValidateEntries(entries, schema, i, errors) ==
  IF i > Len(entries) THEN errors
  ELSE
    LET property == entries[i].property
        value == entries[i].value
        expectedType == LookupType(schema, property)
    IN IF property \in IGNORED_PROPERTIES
         THEN ValidateEntries(entries, schema, i + 1, errors)
       ELSE IF ~Truthy(expectedType)
         THEN ValidateEntries(entries, schema, i + 1, errors)
       ELSE
         LET actualType == getValueType(value)
             isValid == validatePropertyType(value, expectedType)
         IN ValidateEntries(entries, schema, i + 1,
              IF ~isValid
                THEN Append(errors, ErrorEntry(property, expectedType, actualType))
                ELSE errors)

\* the error list validateFile computes on a cache miss
ComputeErrors(frontmatter, schema) ==
  IF ~frontmatter.has THEN <<>>
  ELSE ValidateEntries(frontmatter.entries, schema, 1, <<>>)

\* history: how many times the miss path runs getValueType and
\* validatePropertyType
InferenceCalls(frontmatter, schema) ==
  IF ~frontmatter.has THEN 0
  ELSE Cardinality({ i \in 1..Len(frontmatter.entries) :
         /\ frontmatter.entries[i].property \notin IGNORED_PROPERTIES
         /\ Truthy(LookupType(schema, frontmatter.entries[i].property)) })

\* a lookup that is skipped on every call
CacheHit_never(cached, m) == FALSE

\* a lookup that does not compare the stored mtime
CacheHit_anyMtime(cached, m) == cached.present

\* cached && cached.mtime === file.stat.mtime
CacheHit(cached, m) == cached.present /\ cached.mtime = m

(***************************************************************************)
(* The vault: its markdown files, the frontmatters they hold and the       *)
(* schemas types.json holds.                                               *)
(***************************************************************************)
Files == {"a.md", "b.md"}

Entry(property, value) == [property |-> property, value |-> value]

\* metadata?.frontmatter is undefined
NoFrontmatter == [has |-> FALSE, entries |-> <<>>]
Frontmatter(entries) == [has |-> TRUE, entries |-> entries]

FM_priorityHigh ==
  Frontmatter(<< Entry("priority", JsString(S_high)),
                 Entry("created", JsString(S_date)) >>)
FM_builtins ==
  Frontmatter(<< Entry("position", JsObject),
                 Entry("tags", JsArray(<<JsString(S_urgent), JsString(S_hashwork)>>)),
                 Entry("aliases", JsNumber("5")) >>)
FM_created ==
  Frontmatter(<< Entry("created", JsString(S_datetimeZ)) >>)
FM_nullTitle ==
  Frontmatter(<< Entry("title", JsNull),
                 Entry("category", JsString(S_solo)),
                 Entry("rating", JsNumber("5")) >>)
FM_twoErrors ==
  Frontmatter(<< Entry("title", JsNumber("5")),
                 Entry("priority", JsNumber("NaN")) >>)
FM_empty == Frontmatter(<<>>)

Frontmatters ==
  { NoFrontmatter, FM_empty, FM_priorityHigh, FM_builtins, FM_created,
    FM_nullTitle, FM_twoErrors }

EmptySchema == [p \in {} |-> TypeName("")]

SchemaStandard ==
  [p \in {"priority", "created", "title", "category", "tags", "aliases", "position"} |->
     CASE p = "priority" -> TypeName("number")
       [] p = "created" -> TypeName("date")
       [] p = "title" -> TypeName("text")
       [] p = "category" -> TypeName("list")
       [] p = "tags" -> TypeName("tags")
       [] p = "aliases" -> TypeName("aliases")
       [] p = "position" -> TypeName("text")]

SchemaOdd ==
  [p \in {"priority", "created", "title", "rating"} |->
     CASE p = "priority" -> TypeName("foo")
       [] p = "created" -> TypeName("datetime")
       [] p = "title" -> TypeName("")
       [] p = "rating" -> TypeName("checkbox")]

\* the states of <configDir>/types.json: the file does not exist ("absent"),
\* cannot be read ("unreadable"), is not JSON ("badjson"), is the JSON
\* document null ("nulldoc"), is an object without a "types" key ("notypes"),
\* with "types": null ("nulltypes"), with "types": false ("falsetypes"), or
\* with "types" holding a schema ("ok")
TypesFile(state, types) == [state |-> state, types |-> types]

TypesFileStates ==
  { "absent", "unreadable", "badjson", "nulldoc", "notypes", "nulltypes",
    "falsetypes", "ok" }

\* adapter.exists(typesPath)
exists(tf) == tf.state # "absent"

\* adapter.read, JSON.parse or the member access typesConfig.types throws
LoadThrows(tf) == tf.state \in {"unreadable", "badjson", "nulldoc"}

\* typesConfig.types for a document that parsed to an object
TypesKey(tf) ==
  CASE tf.state = "ok"         -> [kind |-> "object", map |-> tf.types]
    [] tf.state = "nulltypes"  -> [kind |-> "null", map |-> EmptySchema]
    [] tf.state = "falsetypes" -> [kind |-> "boolean", map |-> EmptySchema]
    [] OTHER                   -> [kind |-> "undefined", map |-> EmptySchema]

\* truthiness of typesConfig.types: undefined, null and false are falsy
TruthyKey(k) == k.kind = "object"

\* the bug of storing the parsed document instead of its "types" member
LoadedTypes_wholeDocument(tf) ==
  IF ~exists(tf) THEN EmptySchema
  ELSE IF LoadThrows(tf) THEN EmptySchema
  ELSE [p \in {"types"} |-> [kind |-> "object", name |-> "[object Object]"]]

\* the value loadPropertyTypes assigns to this.propertyTypes
LoadedTypes(tf) ==
  IF ~exists(tf) THEN EmptySchema
  ELSE IF LoadThrows(tf) THEN EmptySchema
  ELSE IF TruthyKey(TypesKey(tf)) THEN TypesKey(tf).map ELSE EmptySchema

TypesFiles ==
  { TypesFile("absent", EmptySchema), TypesFile("badjson", EmptySchema),
    TypesFile("ok", SchemaStandard), TypesFile("ok", SchemaOdd) }

\* every state of the types file, for the specification of the loader
LoadTypesFiles ==
  { TypesFile(st, EmptySchema) : st \in TypesFileStates \ {"ok"} }
    \cup { TypesFile("ok", SchemaStandard), TypesFile("ok", SchemaOdd) }

NoCacheEntry == [present |-> FALSE, mtime |-> 0, errors |-> <<>>]
\* the bug of storing a fresh empty list instead of the computed one
CacheEntry_dropsErrors(m, errors) == [present |-> TRUE, mtime |-> m, errors |-> <<>>]

CacheEntry(m, errors) == [present |-> TRUE, mtime |-> m, errors |-> errors]

NoCall ==
  [ file |-> "", hit |-> FALSE, errors |-> <<>>, calls |-> 0,
    marker |-> 0, record |-> NoFrontmatter, repeat |-> FALSE ]
NotCompleted ==
  [done |-> FALSE, mtime |-> 0, errors |-> <<>>, frontmatter |-> NoFrontmatter]

NoProbe ==
  [ phase |-> "off", value |-> JsNull, expectedType |-> TypeName(""),
    time |-> FALSE, valid |-> FALSE, actual |-> "" ]

\* no Type Checker leaf, no file active, nothing scheduled; the settings are
\* read by onload
\* no trigger of updateViewCurrentFile yet
NoBurst ==
  [ triggers |-> 0, last |-> 0, at |-> "none", calls |-> 0, when |-> 0,
    file |-> "none" ]

ViewClosed ==
  /\ settings = [enableAutoCheck |-> TRUE]
  /\ autoHandler = FALSE
  /\ activeFile = "none"
  /\ leaf = "none"
  /\ currentFile = "none"
  /\ results = <<>>
  /\ updateTimeout = FALSE
  /\ allResults = <<>>
  /\ clock = 0
  /\ timers = <<>>
  /\ burst = NoBurst
  /\ created = 0
  /\ suspended = <<>>

(***************************************************************************)
(* The state after construction: nothing loaded, an empty cache.  The      *)
(* desktop build runs on V8.                                               *)
(***************************************************************************)
Init ==
  /\ engineDates = V8Dates
  /\ typesFile \in TypesFiles
  /\ mtime = [f \in Files |-> 1]
  /\ pending = [f \in Files |-> FALSE]
  /\ deleted = {}
  /\ meta \in [Files -> {FM_priorityHigh, FM_builtins}]
  /\ loaded = FALSE
  /\ propertyTypes = EmptySchema
  /\ validationCache = [f \in Files |-> NoCacheEntry]
  /\ lastCall = NoCall
  /\ completed = [f \in Files |-> NotCompleted]
  /\ probe = NoProbe
  /\ ViewClosed

(***************************************************************************)
(* onload: loadPropertyTypes, after which the commands and the event       *)
(* handlers that call validateFile are registered.  The first              *)
(* active-leaf-change handler is registered only when enableAutoCheck is   *)
(* set at this moment.                                                     *)
(***************************************************************************)
loadPropertyTypes ==
  /\ ~loaded
  /\ propertyTypes' = LoadedTypes(typesFile)
  /\ loaded' = TRUE
  /\ autoHandler' = settings.enableAutoCheck
  /\ UNCHANGED << engineDates, deleted, typesFile, mtime, pending, meta,
                  validationCache, lastCall, completed, probe, settings,
                  activeFile, leaf, currentFile, results, updateTimeout,
                  allResults, clock, timers, burst, created,
                  suspended >>

(***************************************************************************)
(* validateFile(file).  The method has no await: it runs to completion.    *)
(***************************************************************************)
\* the state a validateFile call works on: the cache and the history
CallState == [cache |-> validationCache, last |-> lastCall, done |-> completed]

\* the state validateFile(f) leaves, and in last.errors the list it returns
\* history: the call before this one was a validation of f too, and f's
\* mtime and property map are the ones that call saw
Repeated(last, f) ==
  last.file = f /\ last.marker = mtime[f] /\ last.record = meta[f]

\* the bug of returning an empty result without storing it
Store_skipsEmpty(cache, f, m, errors) ==
  IF errors = <<>> THEN cache ELSE [cache EXCEPT ![f] = CacheEntry(m, errors)]

\* the bug of dropping the entry of another mtime instead of overwriting it
Store_evicts(cache, f, m, errors) ==
  IF cache[f].present THEN [cache EXCEPT ![f] = NoCacheEntry]
  ELSE [cache EXCEPT ![f] = CacheEntry(m, errors)]

\* the bug of a cache that holds the last validated file only
Store_singleSlot(cache, f, m, errors) ==
  [g \in DOMAIN cache |-> IF g = f THEN CacheEntry(m, errors) ELSE NoCacheEntry]

\* this.validationCache.set(cacheKey, { mtime, errors })
Store(cache, f, m, errors) == [cache EXCEPT ![f] = CacheEntry(m, errors)]

AfterValidate(st, f) ==
  LET cached == st.cache[f]
  IN IF CacheHit(cached, mtime[f])
       THEN [ cache |-> st.cache,
              last |-> [ file |-> f, hit |-> TRUE, errors |-> cached.errors,
                         calls |-> 0, marker |-> mtime[f], record |-> meta[f],
                         repeat |-> Repeated(st.last, f) ],
              done |-> [st.done EXCEPT ![f] =
                          [ done |-> TRUE, mtime |-> mtime[f],
                            errors |-> cached.errors,
                            frontmatter |-> st.done[f].frontmatter ]] ]
       ELSE LET errors == ComputeErrors(meta[f], propertyTypes)
            IN [ cache |-> Store(st.cache, f, mtime[f], errors),
                 last |-> [ file |-> f, hit |-> FALSE, errors |-> errors,
                            calls |-> InferenceCalls(meta[f], propertyTypes),
                            marker |-> mtime[f], record |-> meta[f],
                         repeat |-> Repeated(st.last, f) ],
                 done |-> [st.done EXCEPT ![f] =
                             [ done |-> TRUE, mtime |-> mtime[f],
                               errors |-> errors, frontmatter |-> meta[f] ]] ]

\* the list validateFile(f) returned, read off the state it left
Returned(st) == st.last.errors

validateFile(f) ==
  /\ loaded
  /\ f \notin deleted
  /\ LET st == AfterValidate(CallState, f)
     IN /\ validationCache' = st.cache
        /\ lastCall' = st.last
        /\ completed' = st.done
  /\ UNCHANGED << engineDates, deleted, typesFile, mtime, pending, meta, loaded,
                  propertyTypes, probe, viewVars >>

(***************************************************************************)
(* The host: a file is written (its stat.mtime advances at once), and the  *)
(* metadata cache re-parses the file some time later.                      *)
(***************************************************************************)
FileModified(f) ==
  /\ f \notin deleted
  /\ mtime[f] < MaxMtime
  /\ mtime' = [mtime EXCEPT ![f] = @ + 1]
  /\ pending' = [pending EXCEPT ![f] = TRUE]
  /\ UNCHANGED << engineDates, deleted, typesFile, meta, loaded, propertyTypes,
                  validationCache, lastCall, completed, probe, viewVars >>

MetadataChanged(f, frontmatter) ==
  /\ f \notin deleted
  /\ pending[f]
  /\ meta' = [meta EXCEPT ![f] = frontmatter]
  /\ pending' = [pending EXCEPT ![f] = FALSE]
  /\ UNCHANGED << engineDates, deleted, typesFile, mtime, loaded, propertyTypes,
                  validationCache, lastCall, completed, probe, viewVars >>

Next ==
  \/ loadPropertyTypes
  \/ \E f \in Files : validateFile(f)
  \/ \E f \in Files : FileModified(f)
  \/ \E f \in Files, frontmatter \in Frontmatters : MetadataChanged(f, frontmatter)

Spec == Init /\ [][Next]_vars

(***************************************************************************)
(* The pure functions on drawn inputs: a value and an expected type are    *)
(* drawn, under every engine, and the validator and the inferrer are       *)
(* applied to them.                                                        *)
(***************************************************************************)
InitPure ==
  /\ engineDates \in SUBSET EngineDependentStrings
  /\ typesFile = TypesFile("absent", EmptySchema)
  /\ mtime = [f \in Files |-> 1]
  /\ pending = [f \in Files |-> FALSE]
  /\ deleted = {}
  /\ meta = [f \in Files |-> NoFrontmatter]
  /\ loaded = FALSE
  /\ propertyTypes = EmptySchema
  /\ validationCache = [f \in Files |-> NoCacheEntry]
  /\ lastCall = NoCall
  /\ completed = [f \in Files |-> NotCompleted]
  /\ probe \in { [ phase |-> "input", value |-> v, expectedType |-> t,
                   time |-> FALSE, valid |-> FALSE, actual |-> "" ] :
                 v \in Values, t \in ExpectedTypes }
  /\ ViewClosed

ApplyHasTimeComponent ==
  /\ probe.phase = "input"
  /\ probe' = [probe EXCEPT !.phase = "timed",
                 !.time = hasTimeComponent(probe.value)]
  /\ UNCHANGED << engineDates, deleted, typesFile, mtime, pending, meta, loaded,
                  propertyTypes, validationCache, lastCall, completed,
                  viewVars >>

ApplyValidate ==
  /\ probe.phase = "timed"
  /\ probe' = [probe EXCEPT !.phase = "validated",
                 !.valid = validatePropertyType(probe.value, probe.expectedType)]
  /\ UNCHANGED << engineDates, deleted, typesFile, mtime, pending, meta, loaded,
                  propertyTypes, validationCache, lastCall, completed,
                  viewVars >>

ApplyInfer ==
  /\ probe.phase = "validated"
  /\ probe' = [probe EXCEPT !.phase = "done",
                 !.actual = getValueType(probe.value)]
  /\ UNCHANGED << engineDates, deleted, typesFile, mtime, pending, meta, loaded,
                  propertyTypes, validationCache, lastCall, completed,
                  viewVars >>

NextPure == ApplyHasTimeComponent \/ ApplyValidate \/ ApplyInfer

SpecPure == InitPure /\ [][NextPure]_vars

(***************************************************************************)
(* One record on drawn inputs: a.md holds a property of any name, of any   *)
(* value, before the property priority: "high"; types.json declares any    *)
(* expected type for the first property, or none, and number for           *)
(* priority.  The plugin loads the schema and validates the files.         *)
(***************************************************************************)
RecordProperties == {"title", "tags", "aliases", "position"}

RecordFrontmatter(property, value) ==
  Frontmatter(<< Entry(property, value), Entry("priority", JsString(S_high)) >>)

RecordSchema(property, expectedType) ==
  [p \in {property, "priority"} |->
     IF p = "priority" THEN TypeName("number") ELSE expectedType]

RecordSchemas(property) ==
  { RecordSchema(property, t) : t \in ExpectedTypes }
    \cup { [p \in {"priority"} |-> TypeName("number")] }

InitRecord ==
  /\ engineDates = V8Dates
  /\ \E property \in RecordProperties, value \in Values :
       /\ meta = [f \in Files |->
                    IF f = "a.md" THEN RecordFrontmatter(property, value)
                    ELSE NoFrontmatter]
       /\ typesFile \in {TypesFile("ok", sch) : sch \in RecordSchemas(property)}
  /\ mtime = [f \in Files |-> 1]
  /\ pending = [f \in Files |-> FALSE]
  /\ deleted = {}
  /\ loaded = FALSE
  /\ propertyTypes = EmptySchema
  /\ validationCache = [f \in Files |-> NoCacheEntry]
  /\ lastCall = NoCall
  /\ completed = [f \in Files |-> NotCompleted]
  /\ probe = NoProbe
  /\ ViewClosed

NextRecord ==
  \/ loadPropertyTypes
  \/ \E f \in Files : validateFile(f)

SpecRecord == InitRecord /\ [][NextRecord]_vars

(***************************************************************************)
(* The loader: every state of the types file, then validations under the   *)
(* schema that was loaded.                                                 *)
(***************************************************************************)
LoadFrontmatters == {NoFrontmatter, FM_priorityHigh, FM_twoErrors}

InitLoad ==
  /\ engineDates = V8Dates
  /\ typesFile \in LoadTypesFiles
  /\ meta \in [Files -> LoadFrontmatters]
  /\ mtime = [f \in Files |-> 1]
  /\ pending = [f \in Files |-> FALSE]
  /\ deleted = {}
  /\ loaded = FALSE
  /\ propertyTypes = EmptySchema
  /\ validationCache = [f \in Files |-> NoCacheEntry]
  /\ lastCall = NoCall
  /\ completed = [f \in Files |-> NotCompleted]
  /\ probe = NoProbe
  /\ ViewClosed

NextLoad ==
  \/ loadPropertyTypes
  \/ \E f \in Files : validateFile(f)

SpecLoad == InitLoad /\ [][NextLoad]_vars

(***************************************************************************)
(* The vault loses files: a file is deleted, or renamed to a path that is  *)
(* free.  The plugin listens to neither event.                             *)
(***************************************************************************)
FileDeleted(f) ==
  /\ f \notin deleted
  /\ deleted' = deleted \cup {f}
  /\ pending' = [pending EXCEPT ![f] = FALSE]
  /\ meta' = [meta EXCEPT ![f] = NoFrontmatter]
  /\ UNCHANGED << engineDates, typesFile, mtime, loaded, propertyTypes,
                  validationCache, lastCall, completed, probe, viewVars >>

\* the file at path f moves to the free path g; a rename keeps the mtime
FileRenamed(f, g) ==
  /\ f \notin deleted
  /\ g \in deleted
  /\ deleted' = (deleted \cup {f}) \ {g}
  /\ mtime' = [mtime EXCEPT ![g] = mtime[f]]
  /\ pending' = [pending EXCEPT ![g] = pending[f], ![f] = FALSE]
  /\ meta' = [meta EXCEPT ![g] = meta[f], ![f] = NoFrontmatter]
  /\ UNCHANGED << engineDates, typesFile, loaded, propertyTypes,
                  validationCache, lastCall, completed, probe, viewVars >>

VaultFrontmatters == {NoFrontmatter, FM_priorityHigh}

InitVault ==
  /\ engineDates = V8Dates
  /\ typesFile = TypesFile("ok", SchemaStandard)
  /\ meta \in [Files -> VaultFrontmatters]
  /\ mtime = [f \in Files |-> 1]
  /\ pending = [f \in Files |-> FALSE]
  /\ deleted = {}
  /\ loaded = FALSE
  /\ propertyTypes = EmptySchema
  /\ validationCache = [f \in Files |-> NoCacheEntry]
  /\ lastCall = NoCall
  /\ completed = [f \in Files |-> NotCompleted]
  /\ probe = NoProbe
  /\ ViewClosed

NextVault ==
  \/ loadPropertyTypes
  \/ \E f \in Files : validateFile(f)
  \/ \E f \in Files : FileModified(f)
  \/ \E f \in Files, frontmatter \in VaultFrontmatters :
       MetadataChanged(f, frontmatter)
  \/ \E f \in Files : FileDeleted(f)
  \/ \E f, g \in Files : FileRenamed(f, g)

SpecVault == InitVault /\ [][NextVault]_vars

(***************************************************************************)
(* The plugin is unloaded and loaded again (disabled and enabled, or the   *)
(* application restarted) after types.json was rewritten.  onunload is     *)
(* empty; the next onload runs in a new TypeCheckerPlugin instance, whose   *)
(* fields are initialised anew.                                            *)
(***************************************************************************)
\* a cache that outlives the plugin instance
NewCache_shared == validationCache

\* validationCache = new Map() of a new instance
NewCache == [f \in Files |-> NoCacheEntry]

onunload ==
  /\ loaded
  /\ loaded' = FALSE
  /\ propertyTypes' = EmptySchema
  /\ validationCache' = NewCache
  /\ autoHandler' = FALSE
  /\ UNCHANGED << engineDates, deleted, typesFile, mtime, pending, meta,
                  lastCall, completed, probe, settings, activeFile, leaf,
                  currentFile, results, updateTimeout, allResults, clock,
                  timers, burst, created,
                  suspended >>

ReloadTypesFiles ==
  { TypesFile("absent", EmptySchema), TypesFile("ok", SchemaStandard),
    TypesFile("ok", SchemaOdd) }

\* the host rewrites types.json (a property type is changed in the
\* application)
TypesFileChanged(tf) ==
  /\ tf # typesFile
  /\ typesFile' = tf
  /\ UNCHANGED << engineDates, deleted, mtime, pending, meta, loaded,
                  propertyTypes, validationCache, lastCall, completed, probe,
                  viewVars >>

ReloadFrontmatters == {FM_priorityHigh, FM_twoErrors}

InitReload ==
  /\ engineDates = V8Dates
  /\ typesFile \in ReloadTypesFiles
  /\ meta \in [Files -> ReloadFrontmatters]
  /\ mtime = [f \in Files |-> 1]
  /\ pending = [f \in Files |-> FALSE]
  /\ deleted = {}
  /\ loaded = FALSE
  /\ propertyTypes = EmptySchema
  /\ validationCache = [f \in Files |-> NoCacheEntry]
  /\ lastCall = NoCall
  /\ completed = [f \in Files |-> NotCompleted]
  /\ probe = NoProbe
  /\ ViewClosed

NextReload ==
  \/ loadPropertyTypes
  \/ onunload
  \/ \E tf \in ReloadTypesFiles : TypesFileChanged(tf)
  \/ \E f \in Files : validateFile(f)

SpecReload == InitReload /\ [][NextReload]_vars

(***************************************************************************)
(* The plugin with its view.  Every entry point below runs without a       *)
(* macrotask boundary: validateFile has no await, and the other awaits are *)
(* on promises that are already resolved, so neither a host event nor the  *)
(* debounce timer runs in the middle of one.  The exception is             *)
(* leaf.setViewState in activateView, which the host completes later       *)
(* (leaf = "creating" until the view's onOpen runs).  The call history     *)
(* of completed calls (completed) is not recorded here.                    *)
(***************************************************************************)
\* vault.getMarkdownFiles(): the host's enumeration, not sorted by name
MarkdownFiles == << "b.md", "a.md" >>

\* workspace.getActiveFile(): a markdown file or null
ActiveFiles == Files \cup {"none"}

ViewFrontmatters == {NoFrontmatter, FM_priorityHigh, FM_twoErrors}

\* the fields of the TypeCheckerView
ViewState == [currentFile |-> currentFile, results |-> results]
NewView == [currentFile |-> "none", results |-> <<>>]

\* results.findIndex(result => result.file.path === file.path), from 1;
\* 0 when there is none
findIndex(rs, file) ==
  IF \E i \in 1..Len(rs) : rs[i].file = file
    THEN CHOOSE i \in 1..Len(rs) :
           /\ rs[i].file = file
           /\ \A j \in 1..(i - 1) : rs[j].file # file
    ELSE 0

\* results.splice(i, 1)
splice(rs, i) == SubSeq(rs, 1, i - 1) \o SubSeq(rs, i + 1, Len(rs))

\* the bug of keeping an entry whose file has no error left
UpdateOrAdd_noSplice(rs, file, errors) ==
  LET existingIndex == findIndex(rs, file)
  IN IF existingIndex > 0
       THEN [rs EXCEPT ![existingIndex] = [file |-> file, errors |-> errors]]
     ELSE IF Len(errors) > 0
       THEN Append(rs, [file |-> file, errors |-> errors])
     ELSE rs

\* updateCurrentFile after its await, on the list rs with the errors
\* validateFile returned for file: update or add the file's entry, remove it
\* when the file has no error left
UpdateOrAdd(rs, file, errors) ==
  LET existingIndex == findIndex(rs, file)
      replaced ==
        IF existingIndex > 0
          THEN [rs EXCEPT ![existingIndex] = [file |-> file, errors |-> errors]]
        ELSE IF Len(errors) > 0
          THEN Append(rs, [file |-> file, errors |-> errors])
        ELSE rs
  IN IF Len(errors) = 0 /\ existingIndex > 0
       THEN splice(replaced, existingIndex)
       ELSE replaced

\* TypeCheckerView.updateCurrentFile(file), run to its end
updateCurrentFile(vs, st, file) ==
  IF vs.currentFile = file THEN [view |-> vs, st |-> st]
  ELSE IF file \notin Files
    THEN [view |-> [vs EXCEPT !.currentFile = file], st |-> st]
  ELSE
    LET st2 == AfterValidate(st, file)
    IN [ view |-> [ currentFile |-> file,
                    results |-> UpdateOrAdd(vs.results, file, Returned(st2)) ],
         st |-> st2 ]

\* TypeCheckerView.updateResults(results)
updateResults(vs, st, rs) ==
  updateCurrentFile([vs EXCEPT !.results = rs], st, activeFile)

\* the bug of keeping the files that have no error
CheckLoop_keepsAll(st0) ==
  LET loop[i \in 0..Len(MarkdownFiles)] ==
        IF i = 0 THEN [st |-> st0, allResults |-> <<>>]
        ELSE LET file == MarkdownFiles[i]
                 st2 == AfterValidate(loop[i - 1].st, file)
                 errors == Returned(st2)
             IN [ st |-> st2,
                  allResults |->
                    Append(loop[i - 1].allResults,
                           [file |-> file, errors |-> errors]) ]
  IN loop[Len(MarkdownFiles)]

\* the loop of checkAllFiles over getMarkdownFiles(), from the call state
\* st0: the call state it leaves and the list allResults it builds
CheckLoop(st0) ==
  LET loop[i \in 0..Len(MarkdownFiles)] ==
        IF i = 0 THEN [st |-> st0, allResults |-> <<>>]
        ELSE LET file == MarkdownFiles[i]
                 st2 == AfterValidate(loop[i - 1].st, file)
                 errors == Returned(st2)
             IN [ st |-> st2,
                  allResults |->
                    IF Len(errors) > 0
                      THEN Append(loop[i - 1].allResults,
                                  [file |-> file, errors |-> errors])
                      ELSE loop[i - 1].allResults ]
  IN loop[Len(MarkdownFiles)]

hostVars == << engineDates, deleted, typesFile, mtime, pending, meta, loaded,
               propertyTypes, probe, clock >>

\* checkAllFiles run with the view vs and the leaf in state l: the loop,
\* then updateResults when the leaf holds a TypeCheckerView
RunCheckAllFiles(vs, l) ==
  \E loop \in {CheckLoop(CallState)} :
    \E u \in { IF l = "open"
                 THEN updateResults(vs, loop.st, loop.allResults)
                 ELSE [view |-> vs, st |-> loop.st] } :
      /\ validationCache' = u.st.cache
      /\ lastCall' = u.st.last
      /\ currentFile' = u.view.currentFile
      /\ results' = u.view.results
      /\ allResults' = loop.allResults

\* activateView() with the leaf in state l: the state it leaves the leaf
\* in and the number of leaves it creates.  getLeavesOfType finds the leaf
\* once the view is open in it; a leaf whose setViewState has not completed
\* is not found
activateViewFrom(l) ==
  IF l = "open"
    THEN [leaf |-> l, creates |-> 0]
    ELSE [leaf |-> "creating", creates |-> 1]

\* checkAllFiles(); activateView is not awaited: a leaf that does not exist
\* starts being created and is not found by the lookup that follows
CheckAllFilesStep ==
  /\ loaded
  /\ RunCheckAllFiles(ViewState, leaf)
  /\ leaf' = activateViewFrom(leaf).leaf
  /\ UNCHANGED << hostVars, completed, settings, autoHandler,
                  activeFile, updateTimeout, timers, burst, suspended >>

\* the command "Check all files frontmatter" and the view's Refresh button
checkAllFiles == CheckAllFilesStep /\ UNCHANGED created

\* the ribbon icon and the command "Check current file frontmatter"
checkCurrentFile ==
  /\ loaded
  /\ activeFile \in Files
  /\ \E st \in {AfterValidate(CallState, activeFile)} :
       /\ validationCache' = st.cache
       /\ lastCall' = st.last
  /\ UNCHANGED << hostVars, completed, viewVars >>

\* activateView() called on its own
ActivateViewStep ==
  /\ loaded
  /\ leaf' = activateViewFrom(leaf).leaf
  /\ UNCHANGED << hostVars, validationCache, lastCall, completed, settings,
                  autoHandler, activeFile, currentFile, results,
                  updateTimeout, allResults, timers, burst, suspended >>

\* the command "Open Type Checker" when no leaf of the view's type exists
activateView ==
  /\ leaf = "none"
  /\ ActivateViewStep
  /\ UNCHANGED created

\* the host opens the view in the new leaf: TypeCheckerView.onOpen
onOpen ==
  /\ loaded
  /\ leaf = "creating"
  /\ RunCheckAllFiles(NewView, "open")
  /\ leaf' = "open"
  /\ UNCHANGED << hostVars, completed, settings, autoHandler,
                  activeFile, updateTimeout, timers, burst, created,
                  suspended >>

\* the user closes the leaf; the view object goes away with its fields
onClose ==
  /\ leaf = "open"
  /\ leaf' = "none"
  /\ currentFile' = "none"
  /\ results' = <<>>
  /\ UNCHANGED << hostVars, validationCache, lastCall, completed, settings,
                  autoHandler, activeFile, updateTimeout, allResults,
                  timers, burst, created,
                  suspended >>

\* the toggle of the settings tab
ToggleAutoCheck ==
  /\ loaded
  /\ settings' = [settings EXCEPT !.enableAutoCheck = ~@]
  /\ UNCHANGED << hostVars, validationCache, lastCall, completed,
                  autoHandler, activeFile, leaf, currentFile, results,
                  updateTimeout, allResults, timers, burst, created,
                  suspended >>

\* clearTimeout(this.updateTimeout): the field holds the handle of the
\* timer that was set last
clearTimeout(ts) == SubSeq(ts, 1, Len(ts) - 1)

\* the plugin's timer field and the host's pending timers
TimerState == [updateTimeout |-> updateTimeout, timers |-> timers]

\* the bug of not cancelling the pending timer
updateViewCurrentFile_noClear(t) ==
  [updateTimeout |-> TRUE, timers |-> Append(t.timers, clock)]

\* TypeCheckerPlugin.updateViewCurrentFile() from the timer state t: the
\* pending timer is cancelled and a new one is set
updateViewCurrentFile(t) ==
  [ updateTimeout |-> TRUE,
    timers |-> Append(IF t.updateTimeout THEN clearTimeout(t.timers)
                                         ELSE t.timers,
                      clock) ]

\* workspace event active-leaf-change with file the new active file: the
\* handler registered under enableAutoCheck (checkCurrentFile, then
\* updateViewCurrentFile) and the second handler (updateViewCurrentFile)
OnActiveLeafChange(file) ==
  /\ loaded
  /\ activeFile' = file
  /\ \E t \in { IF autoHandler
                  THEN updateViewCurrentFile(updateViewCurrentFile(TimerState))
                  ELSE updateViewCurrentFile(TimerState) } :
       /\ updateTimeout' = t.updateTimeout
       /\ timers' = t.timers
  /\ IF autoHandler /\ settings.enableAutoCheck /\ file \in Files
       THEN \E st \in {AfterValidate(CallState, file)} :
              /\ validationCache' = st.cache
              /\ lastCall' = st.last
       ELSE UNCHANGED << validationCache, lastCall >>
  /\ UNCHANGED << hostVars, completed, settings, autoHandler, leaf,
                  currentFile, results, allResults >>

ActiveLeafChange(file) ==
  OnActiveLeafChange(file) /\ UNCHANGED << burst, created, suspended >>

\* the callback of the timer of updateViewCurrentFile, run for the timer
\* that is due first
TimerCallback ==
  /\ timers # <<>>
  /\ timers' = Tail(timers)
  /\ updateTimeout' = FALSE
  /\ IF leaf = "open"
       THEN \E u \in {updateCurrentFile(ViewState, CallState, activeFile)} :
              /\ validationCache' = u.st.cache
              /\ lastCall' = u.st.last
              /\ currentFile' = u.view.currentFile
              /\ results' = u.view.results
       ELSE UNCHANGED << validationCache, lastCall, currentFile, results >>
  /\ UNCHANGED << hostVars, completed, settings, autoHandler,
                  activeFile, leaf, allResults >>

\* the 100 ms timer of updateViewCurrentFile fires (at a time the model
\* with the view leaves open)
DebounceFires ==
  TimerCallback /\ UNCHANGED << burst, created, suspended >>

\* the files the user edits while the view is in use
EditedFiles == {"a.md"}

InitView ==
  /\ engineDates = V8Dates
  /\ typesFile = TypesFile("ok", SchemaStandard)
  /\ meta \in [Files -> ViewFrontmatters]
  /\ mtime = [f \in Files |-> 1]
  /\ pending = [f \in Files |-> FALSE]
  /\ deleted = {}
  /\ loaded = FALSE
  /\ propertyTypes = EmptySchema
  /\ validationCache = [f \in Files |-> NoCacheEntry]
  /\ lastCall = NoCall
  /\ completed = [f \in Files |-> NotCompleted]
  /\ probe = NoProbe
  /\ settings \in {[enableAutoCheck |-> b] : b \in BOOLEAN}
  /\ autoHandler = FALSE
  /\ activeFile \in ActiveFiles
  /\ leaf = "none"
  /\ currentFile = "none"
  /\ results = <<>>
  /\ updateTimeout = FALSE
  /\ allResults = <<>>
  /\ clock = 0
  /\ timers = <<>>
  /\ burst = NoBurst
  /\ created = 0
  /\ suspended = <<>>

NextView ==
  \/ loadPropertyTypes
  \/ checkCurrentFile
  \/ checkAllFiles
  \/ activateView
  \/ onOpen
  \/ onClose
  \/ ToggleAutoCheck
  \/ \E file \in ActiveFiles : ActiveLeafChange(file)
  \/ DebounceFires
  \/ \E f \in EditedFiles : FileModified(f)
  \/ \E f \in EditedFiles, frontmatter \in ViewFrontmatters :
       MetadataChanged(f, frontmatter)

SpecView == InitView /\ [][NextView]_vars

(***************************************************************************)
(* The debounce of the view updates with the time made explicit.  The      *)
(* view is open throughout; the host's clock advances in steps of StepMs   *)
(* milliseconds and a timer runs at or after the time it is due.           *)
(***************************************************************************)
StepMs == 50
\* setTimeout(..., 100) in steps of the clock
DebounceDelay == 100 \div StepMs
\* the last time the clock reaches
MaxClock == 4
\* the count of triggers the history keeps apart
MaxBurst == 3

\* time passes
Tick ==
  /\ clock < MaxClock
  /\ clock' = clock + 1
  /\ UNCHANGED << engineDates, deleted, typesFile, mtime, pending, meta,
                  loaded, propertyTypes, validationCache, lastCall, completed,
                  probe, settings, autoHandler, activeFile, leaf, currentFile,
                  results, updateTimeout, allResults, timers, burst, created,
                  suspended >>

\* the host opens another file in the active leaf: getActiveFile() changes
\* and active-leaf-change is not fired
FileOpen(file) ==
  /\ loaded
  /\ file # activeFile
  /\ activeFile' = file
  /\ UNCHANGED << hostVars, validationCache, lastCall, completed, settings,
                  autoHandler, leaf, currentFile, results, updateTimeout,
                  allResults, timers, burst, created,
                  suspended >>

\* active-leaf-change at the time clock: a trigger of updateViewCurrentFile
TimedLeafChange(file) ==
  /\ OnActiveLeafChange(file)
  /\ burst' =
       [ burst EXCEPT
           !.triggers = IF timers = <<>> THEN 1
                        ELSE IF @ < MaxBurst THEN @ + 1 ELSE @,
           !.last = clock,
           !.at = file,
           !.calls = IF timers = <<>> THEN 0 ELSE @ ]
  /\ UNCHANGED << created, suspended >>

\* the host runs the callback of a timer that is due
TimerFires ==
  /\ timers # <<>>
  /\ clock >= timers[1] + DebounceDelay
  /\ TimerCallback
  /\ burst' = [ burst EXCEPT !.calls = IF @ < 2 THEN @ + 1 ELSE @,
                             !.when = clock ]
  /\ UNCHANGED << created, suspended >>

InitDebounce ==
  /\ engineDates = V8Dates
  /\ typesFile = TypesFile("ok", SchemaStandard)
  /\ meta = [f \in Files |-> IF f = "a.md" THEN FM_priorityHigh
                                           ELSE NoFrontmatter]
  /\ mtime = [f \in Files |-> 1]
  /\ pending = [f \in Files |-> FALSE]
  /\ deleted = {}
  /\ loaded = TRUE
  /\ propertyTypes = LoadedTypes(typesFile)
  /\ completed = [f \in Files |-> NotCompleted]
  /\ probe = NoProbe
  /\ settings \in {[enableAutoCheck |-> b] : b \in BOOLEAN}
  /\ autoHandler = settings.enableAutoCheck
  /\ activeFile \in ActiveFiles
  /\ leaf = "open"
  /\ \E loop \in { CheckLoop([ cache |-> [f \in Files |-> NoCacheEntry],
                               last |-> NoCall,
                               done |-> completed ]) } :
       \E u \in { updateResults(NewView, loop.st, loop.allResults) } :
         /\ validationCache = u.st.cache
         /\ lastCall = u.st.last
         /\ currentFile = u.view.currentFile
         /\ results = u.view.results
         /\ allResults = loop.allResults
  /\ updateTimeout = FALSE
  /\ clock = 0
  /\ timers = <<>>
  /\ burst = NoBurst
  /\ created = 0
  /\ suspended = <<>>

NextDebounce ==
  \/ Tick
  \/ \E file \in ActiveFiles : FileOpen(file)
  \/ \E file \in ActiveFiles : TimedLeafChange(file)
  \/ TimerFires

SpecDebounce == InitDebounce /\ [][NextDebounce]_vars

(***************************************************************************)
(* The view's methods with updateCurrentFile split at its await: a call    *)
(* runs up to `await this.plugin.validateFile(file)`, waits with the       *)
(* errors it was given, and continues later; other calls of                *)
(* updateCurrentFile and updateResults run in between.  The order in which *)
(* the waiting calls continue is left open.                                *)
(***************************************************************************)
\* the most calls waiting at their await at one time
MaxSuspended == 2

\* updateCurrentFile(getActiveFile()) up to its await
BeginUpdateCurrentFile ==
  /\ currentFile # activeFile
  /\ currentFile' = activeFile
  /\ IF activeFile \in Files
       THEN \E st \in {AfterValidate(CallState, activeFile)} :
              /\ validationCache' = st.cache
              /\ lastCall' = st.last
              /\ suspended' =
                   Append(suspended,
                          [file |-> activeFile, errors |-> Returned(st)])
       ELSE UNCHANGED << validationCache, lastCall, suspended >>

\* the timer callback or another caller starts updateCurrentFile
StartUpdateCurrentFile ==
  /\ loaded
  /\ leaf = "open"
  /\ Len(suspended) < MaxSuspended
  /\ BeginUpdateCurrentFile
  /\ UNCHANGED << hostVars, completed, settings, autoHandler, activeFile,
                  leaf, results, updateTimeout, allResults, timers, burst,
                  created >>

\* checkAllFiles with the view open: the loop, then updateResults, which
\* starts updateCurrentFile
StartUpdateResults ==
  /\ loaded
  /\ leaf = "open"
  /\ Len(suspended) < MaxSuspended
  /\ \E loop \in {CheckLoop(CallState)} :
       /\ results' = loop.allResults
       /\ allResults' = loop.allResults
       /\ currentFile' = activeFile
       /\ IF currentFile # activeFile /\ activeFile \in Files
            THEN \E st \in {AfterValidate(loop.st, activeFile)} :
                   /\ validationCache' = st.cache
                   /\ lastCall' = st.last
                   /\ suspended' =
                        Append(suspended,
                               [file |-> activeFile, errors |-> Returned(st)])
            ELSE /\ validationCache' = loop.st.cache
                 /\ lastCall' = loop.st.last
                 /\ UNCHANGED suspended
  /\ UNCHANGED << hostVars, completed, settings, autoHandler, activeFile,
                  leaf, updateTimeout, timers, burst, created >>

\* the i-th waiting call of updateCurrentFile continues after its await
ResumeUpdateCurrentFile(i) ==
  /\ i \in 1..Len(suspended)
  /\ results' = UpdateOrAdd(results, suspended[i].file, suspended[i].errors)
  /\ suspended' = splice(suspended, i)
  /\ UNCHANGED << hostVars, validationCache, lastCall, completed, settings,
                  autoHandler, activeFile, leaf, currentFile, updateTimeout,
                  allResults, timers, burst, created >>

InitOverlap ==
  /\ engineDates = V8Dates
  /\ typesFile = TypesFile("ok", SchemaStandard)
  /\ meta \in [Files -> ViewFrontmatters]
  /\ mtime = [f \in Files |-> 1]
  /\ pending = [f \in Files |-> FALSE]
  /\ deleted = {}
  /\ loaded = TRUE
  /\ propertyTypes = LoadedTypes(typesFile)
  /\ completed = [f \in Files |-> NotCompleted]
  /\ probe = NoProbe
  /\ settings = [enableAutoCheck |-> TRUE]
  /\ autoHandler = TRUE
  /\ activeFile \in ActiveFiles
  /\ leaf = "open"
  /\ \E loop \in { CheckLoop([ cache |-> [f \in Files |-> NoCacheEntry],
                               last |-> NoCall,
                               done |-> completed ]) } :
       \E u \in { updateResults(NewView, loop.st, loop.allResults) } :
         /\ validationCache = u.st.cache
         /\ lastCall = u.st.last
         /\ currentFile = u.view.currentFile
         /\ results = u.view.results
         /\ allResults = loop.allResults
  /\ updateTimeout = FALSE
  /\ clock = 0
  /\ timers = <<>>
  /\ burst = NoBurst
  /\ created = 1
  /\ suspended = <<>>

NextOverlap ==
  \/ StartUpdateCurrentFile
  \/ StartUpdateResults
  \/ \E i \in 1..MaxSuspended : ResumeUpdateCurrentFile(i)
  \/ \E file \in ActiveFiles : FileOpen(file)
  \/ \E f \in EditedFiles : FileModified(f)
  \/ \E f \in EditedFiles, frontmatter \in ViewFrontmatters :
       MetadataChanged(f, frontmatter)

SpecOverlap == InitOverlap /\ [][NextOverlap]_vars

(***************************************************************************)
(* The leaves of the view's type, counted as they are created.  The        *)
(* commands run while a leaf is being created as well: setViewState is     *)
(* awaited by activateView only, nothing keeps another invocation from     *)
(* starting before it completes.  The leaf is not closed here.             *)
(***************************************************************************)
\* the count of created leaves the history keeps apart
MaxLeaves == 2

\* the count of leaves after an activateView that finds the leaf as it is
CountLeaves ==
  created' = IF created < MaxLeaves
               THEN created + activateViewFrom(leaf).creates
               ELSE created

\* the command "Open Type Checker"
OpenTypeChecker == ActivateViewStep /\ CountLeaves

\* the command "Check all files frontmatter"
CheckAllFilesCommand == CheckAllFilesStep /\ CountLeaves

InitLeaf == InitView

NextLeaf ==
  \/ loadPropertyTypes
  \/ OpenTypeChecker
  \/ CheckAllFilesCommand
  \/ onOpen
  \/ \E file \in ActiveFiles : ActiveLeafChange(file)
  \/ DebounceFires

SpecLeaf == InitLeaf /\ [][NextLeaf]_vars

(***************************************************************************)
(* Vocabulary of the properties below, written from the rules they state.  *)
(***************************************************************************)
IsStringValue(v) == v.kind = "string"
IsSequence(v) == v.kind = "array"
IsAbsent(v) == v.kind \in {"null", "undefined"}
AllStrings(v) == \A i \in DOMAIN v.elems : v.elems[i].kind = "string"
AllHashStrings(v) ==
  \A i \in DOMAIN v.elems :
    /\ v.elems[i].kind = "string"
    /\ Len(v.elems[i].str) > 0
    /\ Head(v.elems[i].str) = "#"

IgnoreList == {"tags", "aliases", "position"}

\* both pure functions have been applied to the drawn inputs
Probed == probe.phase = "done"

\* entry i of the property map must be reported: its property is not
\* ignored, the schema declares a type for it, the type's rule rejects it
MustReport(entries, schema, i) ==
  /\ entries[i].property \notin IgnoreList
  /\ entries[i].property \in DOMAIN schema
  /\ ~validatePropertyType(entries[i].value, schema[entries[i].property])

\* the error entry the claim describes for entry i
ReportOf(entries, schema, i) ==
  LET e == schema[entries[i].property].name
      a == getValueType(entries[i].value)
  IN [ property |-> entries[i].property, expected |-> e, actual |-> a,
       message |-> "expected " \o e \o ", got " \o a ]

ScenarioA_Entry ==
  [ property |-> "priority", expected |-> "number", actual |-> "text",
    message |-> "expected number, got text" ]

(***************************************************************************)
(* C1  Cache correctness of validateFile.  When validateFile(f) runs after *)
(* a completed validateFile(f) and f's mtime is the one that call saw, it  *)
(* returns the stored error list and runs getValueType and                 *)
(* validatePropertyType on no property; when the mtime has changed since,  *)
(* it recomputes the result from the file's current property map.          *)
(***************************************************************************)
C1_CacheCorrectness ==
  [][ \A f \in Files :
        (validateFile(f) /\ completed[f].done) =>
          IF completed[f].mtime = mtime[f]
            THEN /\ lastCall'.hit
                 /\ lastCall'.errors = completed[f].errors
                 /\ lastCall'.calls = 0
            ELSE /\ ~lastCall'.hit
                 /\ lastCall'.errors = ComputeErrors(meta[f], propertyTypes)
                 /\ lastCall'.calls = InferenceCalls(meta[f], propertyTypes)
    ]_vars

\* a.md was validated, modified and re-parsed, validated again (a
\* recomputation with one error) and then validated once more: a hit
C1_Witness ==
  /\ lastCall.file = "a.md"
  /\ lastCall.hit
  /\ lastCall.errors = <<ScenarioA_Entry>>
  /\ mtime["a.md"] = 2
  /\ meta["a.md"] = FM_priorityHigh
  /\ completed["a.md"].frontmatter = FM_priorityHigh

(***************************************************************************)
(* C2  Cache validity.  In every reachable state, a cache entry whose      *)
(* stored mtime equals the file's current mtime holds the error list a     *)
(* fresh validation of the file's current property map against the schema  *)
(* produces, whatever the order of 'mtime changes', 'metadata cache is     *)
(* updated' and 'validateFile is called'.                                  *)
(***************************************************************************)
C2_CacheValidity ==
  \A f \in Files :
    (validationCache[f].present /\ validationCache[f].mtime = mtime[f]) =>
      validationCache[f].errors = ComputeErrors(meta[f], propertyTypes)

(***************************************************************************)
(* C3  Error-list construction.  The result of validating a record holds   *)
(* exactly one entry for each property that is not in the ignore-list,     *)
(* has a declared type e and a value validate rejects for e, and no other  *)
(* entry; each entry has expected = e, actual = infer(value) and the       *)
(* message "expected " + e + ", got " + actual.                            *)
(***************************************************************************)
C3_ErrorList ==
  \A f \in Files :
    completed[f].done =>
      LET entries == completed[f].frontmatter.entries
          errors == completed[f].errors
      IN /\ \A i \in 1..Len(entries) :
              MustReport(entries, propertyTypes, i) =>
                Cardinality({ j \in 1..Len(errors) :
                              errors[j] = ReportOf(entries, propertyTypes, i) }) = 1
         /\ \A j \in 1..Len(errors) :
              \E i \in 1..Len(entries) :
                /\ MustReport(entries, propertyTypes, i)
                /\ errors[j] = ReportOf(entries, propertyTypes, i)
         /\ \A j, k \in 1..Len(errors) :
              errors[j].property = errors[k].property => j = k

\* schema {priority: number}, priority: "high", and a first property that
\* passes: the result is the one entry of the example
C3_Witness ==
  /\ completed["a.md"].done
  /\ completed["a.md"].frontmatter = RecordFrontmatter("title", JsString(S_solo))
  /\ propertyTypes = RecordSchema("title", TypeName("text"))
  /\ completed["a.md"].errors = <<ScenarioA_Entry>>
  /\ validationCache["a.md"] = CacheEntry(1, <<ScenarioA_Entry>>)

(***************************************************************************)
(* C4  Ignore-list.  No error list validateFile returns, fresh or cached,  *)
(* holds an entry for tags, aliases or position, whatever the schema       *)
(* declares for them and whatever their value.                             *)
(***************************************************************************)
C4_IgnoreList ==
  /\ \A j \in 1..Len(lastCall.errors) :
       lastCall.errors[j].property \notin {"tags", "aliases", "position"}
  /\ \A f \in Files :
       /\ \A j \in 1..Len(validationCache[f].errors) :
            validationCache[f].errors[j].property \notin {"tags", "aliases", "position"}
       /\ \A j \in 1..Len(completed[f].errors) :
            completed[f].errors[j].property \notin {"tags", "aliases", "position"}

\* schema {tags: tags}, tags: ["urgent", "#work"]: validated, then returned
\* from the cache, with no entry for tags
C4_Witness ==
  /\ propertyTypes = RecordSchema("tags", TypeName("tags"))
  /\ meta["a.md"] =
       RecordFrontmatter("tags", JsArray(<<JsString(S_urgent), JsString(S_hashwork)>>))
  /\ lastCall.file = "a.md"
  /\ lastCall.hit
  /\ lastCall.errors = <<ScenarioA_Entry>>

(***************************************************************************)
(* C5  Permissive-unknown.  For every raw value and every expected type    *)
(* name that is none of text, list, multitext, number, checkbox, boolean,  *)
(* date, datetime, tags, aliases, validatePropertyType returns true.       *)
(***************************************************************************)
C5_PermissiveUnknown ==
  ( /\ Probed
    /\ probe.expectedType.kind = "string"
    /\ probe.expectedType.name \notin
         { "text", "list", "multitext", "number", "checkbox", "boolean",
           "date", "datetime", "tags", "aliases" } )
  => probe.valid

\* null, which every known type rejects, under the unknown name "foo"
C5_Witness ==
  /\ Probed
  /\ probe.value = JsNull
  /\ probe.expectedType = TypeName("foo")
  /\ probe.valid

(***************************************************************************)
(* C6  Date/datetime partition.  For every string that passes isValidDate, *)
(* exactly one of validate(s, "date") and validate(s, "datetime") is true, *)
(* and it is "datetime" iff hasTimeComponent(s); for every value that      *)
(* fails isValidDate, non-strings included, both are false.  So            *)
(* "2024-03-01" is a valid date and "2024-03-01T10:00:00Z" is not, its     *)
(* actual type being datetime.                                             *)
(***************************************************************************)
C6_DatePartition ==
  ( /\ Probed
    /\ probe.expectedType \in {TypeName("date"), TypeName("datetime")} )
  => /\ isValidDate(probe.value) =>
          ( probe.valid <=>
              ( probe.expectedType.name = "datetime"
                  <=> hasTimeComponent(probe.value) ) )
     /\ ~isValidDate(probe.value) => ~probe.valid
     /\ ~IsStringValue(probe.value) => ~probe.valid
     /\ ( probe.value = JsString(S_date) /\ probe.expectedType.name = "date" )
          => probe.valid
     /\ ( probe.value = JsString(S_datetimeZ) /\ probe.expectedType.name = "date" )
          => ~probe.valid /\ probe.actual = "datetime"

\* "2024-03-01T10:00:00Z" against date: rejected, inferred as datetime
C6_Witness ==
  /\ Probed
  /\ probe.value = JsString(S_datetimeZ)
  /\ probe.expectedType = TypeName("date")
  /\ ~probe.valid
  /\ probe.actual = "datetime"

(***************************************************************************)
(* C7  Validator rule table.  text: the value is a string.  list: a string *)
(* or a sequence of strings.  checkbox: a boolean.  tags: a sequence of    *)
(* strings that start with '#'.  aliases: a sequence of strings.           *)
(* multitext is list and boolean is checkbox, for every value.             *)
(***************************************************************************)
C7_RuleTable ==
  ( Probed /\ probe.expectedType.kind = "string" )
  => LET v == probe.value
         n == probe.expectedType.name
     IN /\ n = "text" => (probe.valid <=> IsStringValue(v))
        /\ n \in {"list", "multitext"} =>
             ( probe.valid <=>
                 (IsStringValue(v) \/ (IsSequence(v) /\ AllStrings(v))) )
        /\ n \in {"checkbox", "boolean"} =>
             (probe.valid <=> v.kind = "boolean")
        /\ n = "tags" => (probe.valid <=> (IsSequence(v) /\ AllHashStrings(v)))
        /\ n = "aliases" => (probe.valid <=> (IsSequence(v) /\ AllStrings(v)))

\* the bare string "solo" is a valid multitext, as it is a valid list
C7_Witness ==
  /\ Probed
  /\ probe.value = JsString(S_solo)
  /\ probe.expectedType = TypeName("multitext")
  /\ probe.valid

(***************************************************************************)
(* C8  Number rule.  validatePropertyType(v, "number") is true iff v is a  *)
(* number that is finite and not NaN: false for NaN, for both infinities   *)
(* and for every non-number.                                               *)
(***************************************************************************)
C8_NumberRule ==
  ( Probed /\ probe.expectedType = TypeName("number") )
  => ( probe.valid <=>
         ( /\ probe.value.kind = "number"
           /\ probe.value.str \notin {<<"NaN">>, <<"Infinity">>, <<"-Infinity">>} ) )

(***************************************************************************)
(* C9  Inferrer rules, first match wins.  null and undefined give "null";  *)
(* a string gives "datetime", "date" or "text" by isValidDate and          *)
(* hasTimeComponent; a non-NaN number gives "number"; a boolean gives      *)
(* "checkbox"; a sequence gives "tags", else "list", else "array";         *)
(* anything else gives its primitive kind.  Every input has a result.      *)
(***************************************************************************)
C9_InferrerRules ==
  Probed =>
    LET v == probe.value
    IN /\ probe.actual \in
            { "null", "datetime", "date", "text", "number", "checkbox",
              "tags", "list", "array", "object" }
       /\ probe.actual =
            ( CASE IsAbsent(v) -> "null"
                [] IsStringValue(v) ->
                     ( IF isValidDate(v) /\ hasTimeComponent(v) THEN "datetime"
                       ELSE IF isValidDate(v) THEN "date"
                       ELSE "text" )
                [] v.kind = "number" /\ v.str # <<"NaN">> -> "number"
                [] v.kind = "boolean" -> "checkbox"
                [] IsSequence(v) ->
                     ( IF AllHashStrings(v) THEN "tags"
                       ELSE IF AllStrings(v) THEN "list"
                       ELSE "array" )
                [] v.kind = "number" /\ v.str = <<"NaN">> -> "number"
                [] v.kind = "object" -> "object" )

\* a sequence of strings that all start with '#': tags, the first match
C9_Witness ==
  /\ Probed
  /\ probe.value = JsArray(<<JsString(S_hashwork), JsString(S_hashwork)>>)
  /\ probe.actual = "tags"

(***************************************************************************)
(* C10  No entry for an undeclared or valueless property.  A property      *)
(* with no declared type produces no error entry, and a property whose     *)
(* value is absent or null produces none whatever type is declared.        *)
(***************************************************************************)
C10_NoEntryForAbsent ==
  \A f \in Files :
    completed[f].done =>
      LET entries == completed[f].frontmatter.entries
          errors == completed[f].errors
      IN \A j \in 1..Len(errors) :
           /\ errors[j].property \in DOMAIN propertyTypes
           /\ \A i \in 1..Len(entries) :
                entries[i].property = errors[j].property =>
                  ~IsAbsent(entries[i].value)

(***************************************************************************)
(* C10, as amended.  A property with no declared type, or that is not a    *)
(* key of the property map, produces no error entry.  A property that is   *)
(* present with a null value is validated like any other: outside the      *)
(* ignore-list and with a known declared type, it produces an entry whose  *)
(* actual type is "null".                                                  *)
(***************************************************************************)
C10_NoEntryForUndeclared ==
  \A f \in Files :
    completed[f].done =>
      LET entries == completed[f].frontmatter.entries
          errors == completed[f].errors
      IN /\ \A j \in 1..Len(errors) :
              /\ errors[j].property \in DOMAIN propertyTypes
              /\ \E i \in 1..Len(entries) :
                   entries[i].property = errors[j].property
         /\ \A i \in 1..Len(entries) :
              ( /\ IsAbsent(entries[i].value)
                /\ entries[i].property \notin IgnoreList
                /\ entries[i].property \in DOMAIN propertyTypes
                /\ propertyTypes[entries[i].property].kind = "string"
                /\ propertyTypes[entries[i].property].name \in KnownTypeNames )
              => \E j \in 1..Len(errors) :
                   /\ errors[j].property = entries[i].property
                   /\ errors[j].actual = "null"

\* title: null with schema {title: text} is reported, before the entry for
\* priority
C10_Witness ==
  /\ completed["a.md"].done
  /\ completed["a.md"].frontmatter = RecordFrontmatter("title", JsNull)
  /\ propertyTypes = RecordSchema("title", TypeName("text"))
  /\ Len(completed["a.md"].errors) = 2
  /\ completed["a.md"].errors[1].message = "expected text, got null"

(***************************************************************************)
(* C11  Ordering within one result.  The error entries of a record appear  *)
(* in the iteration order of its property map: their properties are a      *)
(* subsequence of the map's keys, and no property appears twice.           *)
(***************************************************************************)
KeyIndex(entries, property) ==
  CHOOSE i \in 1..Len(entries) : entries[i].property = property

C11_EntryOrder ==
  \A f \in Files :
    completed[f].done =>
      LET entries == completed[f].frontmatter.entries
          errors == completed[f].errors
      IN /\ \A j \in 1..Len(errors) :
              \E i \in 1..Len(entries) : entries[i].property = errors[j].property
         /\ \A j, k \in 1..Len(errors) :
              j < k => KeyIndex(entries, errors[j].property)
                         < KeyIndex(entries, errors[k].property)

\* title: 5 against text, then priority: "high" against number: two entries,
\* title's first
C11_Witness ==
  /\ completed["a.md"].done
  /\ completed["a.md"].frontmatter = RecordFrontmatter("title", JsNumber("5"))
  /\ Len(completed["a.md"].errors) = 2
  /\ completed["a.md"].errors[1].message = "expected text, got number"
  /\ completed["a.md"].errors[2] = ScenarioA_Entry

(***************************************************************************)
(* C12  Fail-open totality.  validateFile completes for every file and     *)
(* every input.  A schema entry that is not a usable type name (a number,  *)
(* an object, the empty string), or no schema entry at all, gives no error *)
(* entry for the property and leaves the other properties validated.       *)
(***************************************************************************)
Malformed(expectedType) ==
  expectedType.kind # "string" \/ expectedType.name = ""

C12_FailOpen ==
  /\ loaded => \A f \in Files : ENABLED validateFile(f)
  /\ \A f \in Files :
       completed[f].done =>
         LET entries == completed[f].frontmatter.entries
             errors == completed[f].errors
         IN /\ \A i \in 1..Len(entries) :
                 ( \/ entries[i].property \notin DOMAIN propertyTypes
                   \/ Malformed(propertyTypes[entries[i].property]) )
                 => \A j \in 1..Len(errors) :
                      errors[j].property # entries[i].property
            /\ \A i \in 1..Len(entries) :
                 ( /\ entries[i] = Entry("priority", JsString(S_high))
                   /\ "priority" \in DOMAIN propertyTypes
                   /\ propertyTypes["priority"] = TypeName("number") )
                 => \E j \in 1..Len(errors) : errors[j] = ScenarioA_Entry

\* the schema gives title the number 5 as its type: title is not reported,
\* priority after it still is
C12_Witness ==
  /\ completed["a.md"].done
  /\ completed["a.md"].frontmatter = RecordFrontmatter("title", JsNull)
  /\ propertyTypes = RecordSchema("title", [kind |-> "number", name |-> "5"])
  /\ completed["a.md"].errors = <<ScenarioA_Entry>>

\* C13 as stated: when the file exists, parses and has a non-null "types"
\* key, propertyTypes is the value of that key.
C13_KeyValueWhenPresent ==
  ( /\ loaded
    /\ exists(typesFile)
    /\ ~LoadThrows(typesFile)
    /\ TypesKey(typesFile).kind \notin {"undefined", "null"} )
  => TypesKey(typesFile) = [kind |-> "object", map |-> propertyTypes]

\* C13 (amended): loadPropertyTypes always completes; afterwards
\* propertyTypes is the "types" member when it is truthy, and the empty map
\* when the file is absent, unreadable, not JSON, the document null, the key
\* absent, null or false; with the empty map every validation returns and
\* stores the empty list.
C13_LoadDegrades ==
  /\ ~loaded => ENABLED loadPropertyTypes
  /\ loaded =>
       /\ typesFile.state = "ok" => propertyTypes = typesFile.types
       /\ typesFile.state \in
            { "absent", "unreadable", "badjson", "nulldoc", "notypes",
              "nulltypes", "falsetypes" }
            => propertyTypes = EmptySchema
       /\ propertyTypes = EmptySchema =>
            \A f \in Files :
              /\ completed[f].done => completed[f].errors = <<>>
              /\ validationCache[f].present => validationCache[f].errors = <<>>

C13_Witness ==
  /\ loaded
  /\ typesFile.state = "falsetypes"
  /\ propertyTypes = EmptySchema
  /\ meta["a.md"] = FM_twoErrors
  /\ completed["a.md"].done
  /\ completed["a.md"].errors = <<>>

\* C14: a validateFile call that recomputes for a record whose property map
\* is absent or empty, or under an empty schema, returns the empty list and
\* leaves the cache entry (current marker, empty list) for the record.
C14_EmptyRecord ==
  [][ \A f \in Files :
        ( /\ validateFile(f)
          /\ ~lastCall'.hit
          /\ \/ ~meta[f].has
             \/ meta[f].entries = <<>>
             \/ DOMAIN propertyTypes = {} )
        => /\ lastCall'.errors = <<>>
           /\ validationCache'[f] =
                [present |-> TRUE, mtime |-> mtime[f], errors |-> <<>>] ]_vars

C14_Witness ==
  /\ lastCall.file = "a.md"
  /\ ~lastCall.hit
  /\ lastCall.record = NoFrontmatter
  /\ lastCall.marker = 2
  /\ validationCache["a.md"] = [present |-> TRUE, mtime |-> 2, errors |-> <<>>]
  /\ validationCache["b.md"].present
  /\ DOMAIN propertyTypes = DOMAIN SchemaStandard

\* a cache entry for f that carries f's current mtime
EqualMarkerEntry(f) ==
  validationCache[f].present /\ validationCache[f].mtime = mtime[f]

Revalidation(f) ==
  /\ lastCall.file = f
  /\ lastCall.marker = mtime[f]
  /\ lastCall.record = meta[f]

C19_LostUpdatesHarmless ==
  [][ \A f \in Files :
        (validateFile(f) /\ Revalidation(f)) =>
          /\ lastCall'.errors = lastCall.errors
          /\ validationCache'[f] =
               [ present |-> TRUE, mtime |-> mtime[f],
                 errors |-> lastCall'.errors ]
          /\ validationCache'[f].errors =
               ComputeErrors(meta[f], propertyTypes) ]_vars

\* the place of a file in the enumeration of the vault
EnumerationIndex(f) == CHOOSE k \in 1..Len(MarkdownFiles) : MarkdownFiles[k] = f

\* C15: the list checkAllFiles passes on holds exactly the files of the
\* vault whose validation result has at least one error, each once, paired
\* with its own error list, in the order of the enumeration; a file with
\* zero errors does not appear.
C15_AllResults ==
  [][ (checkAllFiles \/ onOpen) =>
        /\ \A f \in Files :
             Len(validationCache'[f].errors) > 0 <=>
               \E i \in 1..Len(allResults') : allResults'[i].file = f
        /\ \A i \in 1..Len(allResults') :
             /\ allResults'[i].file \in Files
             /\ allResults'[i].errors =
                  validationCache'[allResults'[i].file].errors
        /\ \A i, j \in 1..Len(allResults') :
             i < j => EnumerationIndex(allResults'[i].file)
                        < EnumerationIndex(allResults'[j].file) ]_vars

\* checkAllFiles ran on a vault where a.md has one error and b.md none
C15_Witness ==
  /\ allResults = << [file |-> "a.md", errors |-> <<ScenarioA_Entry>>] >>
  /\ validationCache["b.md"].present
  /\ validationCache["b.md"].errors = <<>>
  /\ leaf = "open"
  /\ results = allResults

ViewEntry(f) ==
  IF findIndex(results, f) > 0 THEN results[findIndex(results, f)].errors
  ELSE <<>>

\* C20: with auto-checking enabled since the plugin loaded and the view
\* open, once the metadata update of a save of the active file has arrived
\* and nothing of the plugin is left to run (no debounce timer pending), the
\* view's entry for the file is the result of validating its new property
\* map.
C20_AutoCheckOnSave ==
  \A f \in Files :
    ( /\ loaded
      /\ autoHandler
      /\ settings.enableAutoCheck
      /\ leaf = "open"
      /\ activeFile = f
      /\ ~updateTimeout
      /\ ~pending[f] )
    => ViewEntry(f) = ComputeErrors(meta[f], propertyTypes)

\* an HH:MM pattern (one or two digits, a colon, two digits) starts at
\* position j of s; a two-digit hour at j has a one-digit match at j + 1
HourMinuteAt(s, j) ==
  /\ j + 3 <= Len(s)
  /\ s[j] \in Digits
  /\ s[j + 1] = ":"
  /\ s[j + 2] \in Digits
  /\ s[j + 3] \in Digits

HasChar(s, c) == \E i \in 1..Len(s) : s[i] = c

\* C22 as stated: hasTimeComponent(s) is true iff s contains 'T' or a space
\* that an HH:MM pattern follows later in the string; it is false for every
\* non-string.
C22_TimeAfterSpace ==
  probe.phase \in {"timed", "validated", "done"} =>
    IF probe.value.kind = "string"
      THEN probe.time <=>
             \/ HasChar(probe.value.str, "T")
             \/ \E i \in 1..Len(probe.value.str) :
                  /\ probe.value.str[i] = " "
                  /\ \E j \in (i + 1)..Len(probe.value.str) :
                       HourMinuteAt(probe.value.str, j)
      ELSE ~probe.time

\* C22 (amended): hasTimeComponent(s) is true iff s contains 'T', or s
\* contains a space and, anywhere in it (before or after the space), an
\* HH:MM pattern; it is false for every non-string.
C22_TimeComponent ==
  probe.phase \in {"timed", "validated", "done"} =>
    IF probe.value.kind = "string"
      THEN probe.time <=>
             \/ HasChar(probe.value.str, "T")
             \/ /\ HasChar(probe.value.str, " ")
                /\ \E j \in 1..Len(probe.value.str) :
                     HourMinuteAt(probe.value.str, j)
      ELSE ~probe.time

\* "10:30 2024-03-01": no 'T', the only pattern before the only space
C22_Witness ==
  /\ probe.phase = "timed"
  /\ probe.value = JsString(S_timeThenDate)
  /\ probe.time

\* C26: for every value v, validatePropertyType(v, getValueType(v)) is
\* true: a value is valid for the type that is inferred for it, so no error
\* entry reads "expected X, got X".
C26_InferenceAgrees ==
  (Probed /\ probe.expectedType = TypeName(probe.actual)) => probe.valid

\* C24: once validateFile has stored an entry for a path, every later state
\* has an entry for that path, also after the file was deleted or renamed;
\* an entry changes only in a validation of the same path.
C24_NeverRemoved ==
  /\ [](\A f \in Files : completed[f].done => validationCache[f].present)
  /\ [][ \A f \in Files :
           validationCache'[f] # validationCache[f] => validateFile(f) ]_vars

\* a.md was validated and then renamed to the path b.md had before it was
\* deleted: both paths still have their entries
C24_Witness ==
  /\ deleted = {"a.md"}
  /\ validationCache["a.md"].present
  /\ validationCache["a.md"].errors = <<ScenarioA_Entry>>
  /\ validationCache["b.md"].present
  /\ meta["b.md"] = FM_priorityHigh

\* C25: a validateFile(f) call that hits leaves the whole cache unchanged;
\* one that misses sets the entry of f to (the mtime of f, the returned
\* list) and leaves the entries of the other files; neither changes the
\* schema or the settings.
C25_Frame ==
  [][ \A f \in Files :
        validateFile(f) =>
          /\ lastCall'.hit => validationCache' = validationCache
          /\ ~lastCall'.hit =>
               /\ validationCache'[f].present
               /\ validationCache'[f].mtime = mtime[f]
               /\ validationCache'[f].errors = lastCall'.errors
               /\ \A g \in Files \ {f} :
                    validationCache'[g] = validationCache[g]
          /\ propertyTypes' = propertyTypes
          /\ settings' = settings ]_vars

\* a miss on a.md at mtime 2 while b.md keeps its entry with two errors
C25_Witness ==
  /\ lastCall.file = "a.md"
  /\ ~lastCall.hit
  /\ lastCall.marker = 2
  /\ validationCache["a.md"].mtime = 2
  /\ validationCache["b.md"].present
  /\ Len(validationCache["b.md"].errors) = 2

\* C27: every error list validateFile returns was computed under the
\* schema that is loaded at the time of the call; after the plugin was
\* reloaded with another schema, a file whose mtime did not change gets
\* the result of the new schema, not the one stored under the old schema.
C27_NoStaleSchema ==
  [][ \A f \in Files :
        validateFile(f) =>
          lastCall'.errors =
            ComputeErrors(completed'[f].frontmatter, propertyTypes) ]_vars

\* b.md was validated under the standard schema; types.json was rewritten
\* and the plugin reloaded; a.md, its mtime unchanged, is recomputed under
\* the new schema
C27_Witness ==
  /\ loaded
  /\ propertyTypes = SchemaOdd
  /\ lastCall.file = "a.md"
  /\ ~lastCall.hit
  /\ lastCall.marker = 1
  /\ lastCall.errors = ComputeErrors(meta["a.md"], SchemaOdd)
  /\ lastCall.errors # ComputeErrors(meta["a.md"], SchemaStandard)
  /\ completed["a.md"].done
  /\ completed["b.md"].done
  /\ completed["b.md"].errors = ComputeErrors(meta["b.md"], SchemaStandard)
  /\ completed["b.md"].errors # ComputeErrors(meta["b.md"], SchemaOdd)

\* C21: in every state where enableAutoCheck is true (true at load or
\* toggled on later), a change of the active file to a markdown file makes
\* validateFile run on that file; when the setting is false, the switch
\* runs no validation (checkCurrentFile is not invoked).
C21_AutoCheckOnSwitch ==
  [][ \A file \in Files :
        (ActiveLeafChange(file) /\ file # activeFile) =>
          /\ settings.enableAutoCheck => lastCall'.file = file
          /\ ~settings.enableAutoCheck =>
               /\ lastCall' = lastCall
               /\ validationCache' = validationCache ]_vars

\* C23: in a burst of triggers of updateViewCurrentFile a trigger that
\* finds a timer pending cancels it, so one timer at most is pending; the
\* view's updateCurrentFile is called once for the burst, not before 100 ms
\* after the last trigger, and with the file that is active when the timer
\* fires.
C23_Debounce ==
  /\ [] /\ Len(timers) <= 1
        /\ updateTimeout <=> timers # <<>>
        /\ burst.triggers > 0 =>
             /\ burst.calls = (IF timers = <<>> THEN 1 ELSE 0)
             /\ burst.calls = 1 => burst.when >= burst.last + DebounceDelay
  /\ [][ TimerFires =>
           /\ timers' = <<>>
           /\ currentFile' = activeFile ]_vars

\* two triggers 50 ms apart with a.md active at the last one; b.md is
\* opened in the leaf before the timer fires, 100 ms after the last trigger:
\* one call, with b.md
C23_Witness ==
  /\ burst.triggers = 2
  /\ burst.last = 1
  /\ burst.at = "a.md"
  /\ burst.calls = 1
  /\ burst.when = 3
  /\ clock = 3
  /\ activeFile = "b.md"
  /\ currentFile = "b.md"
  /\ timers = <<>>
  /\ ~updateTimeout

\* the errors of the entry of f in the list rs; none when f has no entry
EntryOf(rs, f) ==
  IF findIndex(rs, f) > 0 THEN rs[findIndex(rs, f)].errors ELSE <<>>

\* C28: whatever updateResults and updateCurrentFile calls ran, and however
\* the calls waiting at their await overlapped, the view's list holds one
\* entry at most per file path and no entry with an empty error list; when
\* an updateCurrentFile call for a markdown file other than the previous
\* current file completes, the list has an entry for the file iff
\* validateFile returned an error for it, the entry holds the returned
\* errors, and the entries of the other files are as they were.
C28_ResultList ==
  /\ [] /\ \A i, j \in 1..Len(results) :
             results[i].file = results[j].file => i = j
        /\ \A i \in 1..Len(results) : Len(results[i].errors) > 0
  /\ [][ \A i \in 1..Len(suspended) :
           ResumeUpdateCurrentFile(i) =>
             /\ (findIndex(results', suspended[i].file) > 0)
                  <=> (Len(suspended[i].errors) > 0)
             /\ EntryOf(results', suspended[i].file) = suspended[i].errors
             /\ \A g \in Files \ {suspended[i].file} :
                  /\ (findIndex(results', g) > 0) <=> (findIndex(results, g) > 0)
                  /\ EntryOf(results', g) = EntryOf(results, g) ]_vars

\* a call for a.md, which had no error, waits at its await; a.md was
\* edited and a checkAllFiles listed it; a call for b.md has started and
\* completed in between
C28_Witness ==
  /\ Len(suspended) = 1
  /\ suspended[1].file = "a.md"
  /\ suspended[1].errors = <<>>
  /\ Len(results) = 2
  /\ Len(EntryOf(results, "a.md")) > 0
  /\ Len(EntryOf(results, "b.md")) > 0
  /\ currentFile = "b.md"
  /\ lastCall.file = "b.md"

\* C29: every completed checkAllFiles, the one the view's onOpen makes
\* included, passes the list it built to the view's updateResults, also
\* when no Type Checker leaf existed when it was invoked: when it has
\* completed the view holds that list.
C29_ResultsReachView ==
  [][ (checkAllFiles \/ onOpen) => results' = allResults' ]_vars

\* C30: whatever the order of the activateView invocations, one leaf of
\* the view's type at most is ever created; an invocation that finds a
\* leaf creates none.
C30_SingleLeaf ==
  /\ [](created <= 1)
  /\ [][ created' # created => leaf = "none" ]_vars

====
